---- MODULE Spec2Model ----
(***************************************************************************)
(* Model of enhanced_pdf_parser_with_sources.py: the EnhancedPDFParser     *)
(* batch processor with its statistics, and the four text-cleaning passes. *)
(* A text is a sequence of one-character strings.  Every regular           *)
(* expression of the source is translated with the characters the source   *)
(* file holds.                                                             *)
(***************************************************************************)
EXTENDS Integers, Sequences, FiniteSets, TLC

(***************************************************************************)
(* Characters outside ASCII, written by code point.  The names are used    *)
(* in braces where a comment quotes a pattern of the source.               *)
(***************************************************************************)
NotSign == "U+00AC"
PlusMinus == "U+00B1"
Degree == "U+00B0"
MascOrdinal == "U+00BA"
ADiaeresis == "U+00C4"
Times == "U+00D7"
IGrave == "U+00EC"
OAcute == "U+00F3"
OELigature == "U+0152"
Mu == "U+03BC"
EnDash == "U+2013"
LowQuote == "U+201A"
SquareRoot == "U+221A"
Infinity == "U+221E"

(***************************************************************************)
(* Character classes of Python's re module, over the characters used here. *)
(***************************************************************************)
Digit == {"0", "1", "2", "3", "4", "5", "6", "7", "8", "9"}

LowerLetter ==
    {"a", "b", "c", "d", "e", "f", "g", "h", "i", "j", "k", "l", "m",
     "n", "o", "p", "q", "r", "s", "t", "u", "v", "w", "x", "y", "z"}

UpperLetter ==
    {"A", "B", "C", "D", "E", "F", "G", "H", "I", "J", "K", "L", "M",
     "N", "O", "P", "Q", "R", "S", "T", "U", "V", "W", "X", "Y", "Z"}

\* Letters outside ASCII that occur in the source's patterns or in the inputs.
OtherLetter == {OAcute, ADiaeresis, IGrave, OELigature, MascOrdinal, Mu}

\* \w
WordChars == LowerLetter \cup UpperLetter \cup Digit \cup OtherLetter \cup {"_"}

\* \s, which is also what str.strip() removes
SpaceChars == {" ", "\t", "\n", "\r", "\f"}

\* The characters after the ^ of the class in line 249.
EssentialChars ==
    WordChars \cup SpaceChars \cup
    {".", ",", "-", "+", SquareRoot, OAcute, NotSign, Infinity, "%", NotSign, PlusMinus, "=", ":", "/",
     "(", ")", "[", "]", OELigature, MascOrdinal, "m", "k", "M", "G", "T", "g", "L", "V", "A", "W"}

(***************************************************************************)
(* Matching helpers.  Positions are 1-based; an end position is the        *)
(* position after the last matched character, and 0 stands for no match.   *)
(***************************************************************************)
At(s, p) == IF p >= 1 /\ p <= Len(s) THEN s[p] ELSE ""

Slice(s, a, b) == SubSeq(s, a, b - 1)

\* End of the longest run of characters of cls that starts at p (greedy X*).
RECURSIVE RunEnd(_, _, _)
RunEnd(s, p, cls) ==
    IF p <= Len(s) /\ s[p] \in cls THEN RunEnd(s, p + 1, cls) ELSE p

\* Position of the last newline in s[a .. b-1], or 0.
RECURSIVE LastNewline(_, _, _)
LastNewline(s, a, b) ==
    IF b <= a THEN 0
    ELSE IF s[b - 1] = "\n" THEN b - 1 ELSE LastNewline(s, a, b - 1)

\* Number of newlines in s[a .. b-1].
RECURSIVE CountNewlines(_, _, _)
CountNewlines(s, a, b) ==
    IF b <= a THEN 0
    ELSE (IF s[a] = "\n" THEN 1 ELSE 0) + CountNewlines(s, a + 1, b)

\* \d+\.?\d* at p.  What follows it in every pattern is neither a digit nor
\* a period, so only the longest match can be continued.
NumberEnd(s, p) ==
    IF At(s, p) \notin Digit THEN 0
    ELSE LET e1 == RunEnd(s, p, Digit)
             e2 == IF At(s, e1) = "." THEN e1 + 1 ELSE e1
         IN  RunEnd(s, e2, Digit)

\* \s*\n\s* at p, followed by a character that is not whitespace: the whole
\* whitespace run, which must hold a newline.
BreakEnd(s, p) ==
    LET e == RunEnd(s, p, SpaceChars)
    IN  IF p >= 1 /\ LastNewline(s, p, e) # 0 THEN e ELSE 0

NoMatch == [end |-> 0, repl |-> <<>>]

\* re.sub: scan from the left; at a position with a match emit its
\* replacement and go on after the match, else emit the character.
RECURSIVE Scan(_, _, _)
Scan(s, p, m) ==
    IF p > Len(s) THEN <<>>
    ELSE IF m[p].end > 0 THEN m[p].repl \o Scan(s, m[p].end, m)
    ELSE <<s[p]>> \o Scan(s, p + 1, m)

ReSub(s, m) == Scan(s, 1, m)

(***************************************************************************)
(* _fix_numerical_line_breaks                                              *)
(***************************************************************************)
\* (\d+\.?\d*)\s*\n\s*([%{NotSign}{Infinity}])  ->  \1\2
MatchPercent(s, p) ==
    LET n == NumberEnd(s, p)
        b == IF n = 0 THEN 0 ELSE BreakEnd(s, n)
    IN  IF b # 0 /\ At(s, b) \in {"%", NotSign, Infinity}
        THEN [end |-> b + 1, repl |-> Slice(s, p, n) \o <<s[b]>>]
        ELSE NoMatch

\* [-+]?\d+ at p
ExponentEnd(s, p) ==
    LET d == IF At(s, p) \in {"-", "+"} /\ At(s, p + 1) \in Digit THEN p + 1 ELSE p
    IN  IF At(s, d) \in Digit THEN RunEnd(s, d, Digit) ELSE 0

\* (\d+\.?\d*\s*[{SquareRoot}{OAcute}x]\s*10)\s*\n\s*([-+]?\d+)  ->  \1^\2
MatchScientific(s, p) ==
    LET n == NumberEnd(s, p)
        x == IF n = 0 THEN 0 ELSE RunEnd(s, n, SpaceChars)
        t == IF x # 0 /\ At(s, x) \in {SquareRoot, OAcute, "x"}
             THEN RunEnd(s, x + 1, SpaceChars) ELSE 0
        g == IF t # 0 /\ At(s, t) = "1" /\ At(s, t + 1) = "0" THEN t + 2 ELSE 0
        b == IF g = 0 THEN 0 ELSE BreakEnd(s, g)
        e == IF b = 0 THEN 0 ELSE ExponentEnd(s, b)
    IN  IF e # 0
        THEN [end |-> e, repl |-> Slice(s, p, g) \o <<"^">> \o Slice(s, b, e)]
        ELSE NoMatch

\* (\d+\.?\d*)\s*\n\s*SIGN\s*\n\s*(\d+\.?\d*), SIGN a sequence of characters
\* each drawn from the class at the same place of signs; the second number
\* ends the pattern and is matched greedily.
MatchThreeLines(s, p, signs, joint) ==
    LET n  == NumberEnd(s, p)
        b1 == IF n = 0 THEN 0 ELSE BreakEnd(s, n)
        ok == b1 # 0 /\ \A i \in 1..Len(signs) : At(s, b1 + i - 1) \in signs[i]
        b2 == IF ok THEN BreakEnd(s, b1 + Len(signs)) ELSE 0
        e  == IF b2 = 0 THEN 0 ELSE NumberEnd(s, b2)
    IN  IF e # 0
        THEN [end |-> e, repl |-> Slice(s, p, n) \o joint \o Slice(s, b2, e)]
        ELSE NoMatch

\* (\d+\.?\d*)\s*\n\s*[-{LowQuote}{ADiaeresis}{IGrave}]\s*\n\s*(\d+\.?\d*)  ->  \1-\2
MatchRange(s, p) == MatchThreeLines(s, p, <<{"-", LowQuote, ADiaeresis, IGrave}>>, <<"-">>)

\* (\d+\.?\d*)\s*\n\s*{NotSign}{PlusMinus}\s*\n\s*(\d+\.?\d*)  ->  \1{NotSign}{PlusMinus}\2
MatchErrorRange(s, p) == MatchThreeLines(s, p, <<{NotSign}, {PlusMinus}>>, <<NotSign, PlusMinus>>)

\* ([{OELigature}{MascOrdinal}mkMGT]?[gLMVAW]|{NotSign}{Infinity}[CF]?) at p: the prefixed unit is tried first, then
\* the bare unit, then the second alternative.
UnitEnd(s, p) ==
    IF At(s, p) \in {OELigature, MascOrdinal, "m", "k", "M", "G", "T"}
       /\ At(s, p + 1) \in {"g", "L", "M", "V", "A", "W"} THEN p + 2
    ELSE IF At(s, p) \in {"g", "L", "M", "V", "A", "W"} THEN p + 1
    ELSE IF At(s, p) = NotSign /\ At(s, p + 1) = Infinity
         THEN (IF At(s, p + 2) \in {"C", "F"} THEN p + 3 ELSE p + 2)
    ELSE 0

\* (\d+\.?\d*)\s*\n\s*([{OELigature}{MascOrdinal}mkMGT]?[gLMVAW]|{NotSign}{Infinity}[CF]?)  ->  \1\2
MatchUnit(s, p) ==
    LET n == NumberEnd(s, p)
        b == IF n = 0 THEN 0 ELSE BreakEnd(s, n)
        e == IF b = 0 THEN 0 ELSE UnitEnd(s, b)
    IN  IF e # 0
        THEN [end |-> e, repl |-> Slice(s, p, n) \o Slice(s, b, e)]
        ELSE NoMatch

FixPercent(text) == ReSub(text, [p \in 1..Len(text) |-> MatchPercent(text, p)])
FixScientific(text) == ReSub(text, [p \in 1..Len(text) |-> MatchScientific(text, p)])
FixRange(text) == ReSub(text, [p \in 1..Len(text) |-> MatchRange(text, p)])
FixErrorRange(text) == ReSub(text, [p \in 1..Len(text) |-> MatchErrorRange(text, p)])
FixUnit(text) == ReSub(text, [p \in 1..Len(text) |-> MatchUnit(text, p)])

fix_numerical_line_breaks(text) ==
    FixUnit(FixErrorRange(FixRange(FixScientific(FixPercent(text)))))

(***************************************************************************)
(* _normalize_whitespace                                                   *)
(***************************************************************************)
\* ' +'  ->  ' '
MatchSpaces(s, p) ==
    IF s[p] = " " THEN [end |-> RunEnd(s, p, {" "}), repl |-> <<" ">>] ELSE NoMatch

\* \n\n+  ->  \n\n
MatchBlankLines(s, p) ==
    IF s[p] = "\n" /\ At(s, p + 1) = "\n"
    THEN [end |-> RunEnd(s, p, {"\n"}), repl |-> <<"\n", "\n">>]
    ELSE NoMatch

\* Position of the first newline of s at or after p, or Len(s) + 1.
RECURSIVE NextNewline(_, _)
NextNewline(s, p) ==
    IF p > Len(s) \/ s[p] = "\n" THEN p ELSE NextNewline(s, p + 1)

\* text.split('\n'): the lines of s from position p on, at least one.
RECURSIVE Split(_, _)
Split(s, p) ==
    LET e == NextNewline(s, p)
    IN  IF e > Len(s) THEN <<Slice(s, p, e)>>
        ELSE <<Slice(s, p, e)>> \o Split(s, e + 1)

\* Last position q' <= q of s that holds no whitespace, or 0.
RECURSIVE TrimEnd(_, _)
TrimEnd(s, q) == IF q >= 1 /\ s[q] \in SpaceChars THEN TrimEnd(s, q - 1) ELSE q

\* str.strip()
Strip(s) == SubSeq(s, RunEnd(s, 1, SpaceChars), TrimEnd(s, Len(s)))

SentenceEnd == {".", "!", "?", ":", ";"}

\* One turn of the loop of lines 221-237: what line i appends to cleaned_lines.
CleanedLine(lines, i) ==
    LET line == Strip(lines[i])
        next == i < Len(lines) /\ Strip(lines[i + 1]) # <<>>
    IN  IF line = <<>> THEN <<>>
        ELSE IF next /\ line[Len(line)] \in SentenceEnd THEN line
        ELSE IF next THEN line \o <<" ">>
        ELSE line

\* ''.join(cleaned_lines[i:])
RECURSIVE JoinFrom(_, _)
JoinFrom(lines, i) ==
    IF i > Len(lines) THEN <<>> ELSE CleanedLine(lines, i) \o JoinFrom(lines, i + 1)

normalize_whitespace(text) ==
    LET t1 == ReSub(text, [p \in 1..Len(text) |-> MatchSpaces(text, p)])
        t2 == ReSub(t1, [p \in 1..Len(t1) |-> MatchBlankLines(t1, p)])
    IN  JoinFrom(Split(t2, 1), 1)

(***************************************************************************)
(* _clean_preserve_numerical_symbols                                       *)
(***************************************************************************)
clean_preserve_numerical_symbols(text) ==
    [i \in 1..Len(text) |-> IF text[i] \in EssentialChars THEN text[i] ELSE " "]

(***************************************************************************)
(* _remove_noise_keep_context                                              *)
(***************************************************************************)
\* \s*\n at p with \s* greedy: up to the last newline of the whitespace run.
LineEnd(s, p) ==
    LET l == LastNewline(s, p, RunEnd(s, p, SpaceChars))
    IN  IF l = 0 THEN 0 ELSE l + 1

\* \n\s*Page \d+\s*\n with re.IGNORECASE  ->  \n
MatchPageLine(s, p) ==
    LET a == RunEnd(s, p + 1, SpaceChars)
        d == RunEnd(s, a + 5, Digit)
        e == IF /\ s[p] = "\n"
                /\ At(s, a) \in {"P", "p"}
                /\ At(s, a + 1) \in {"A", "a"}
                /\ At(s, a + 2) \in {"G", "g"}
                /\ At(s, a + 3) \in {"E", "e"}
                /\ At(s, a + 4) = " "
                /\ d > a + 5
             THEN LineEnd(s, d) ELSE 0
    IN  IF e # 0 THEN [end |-> e, repl |-> <<"\n">>] ELSE NoMatch

\* \n\s*\d+\s*\n  ->  \n
MatchPageNumber(s, p) ==
    LET a == RunEnd(s, p + 1, SpaceChars)
        d == RunEnd(s, a, Digit)
        e == IF s[p] = "\n" /\ d > a THEN LineEnd(s, d) ELSE 0
    IN  IF e # 0 THEN [end |-> e, repl |-> <<"\n">>] ELSE NoMatch

\* \n\s*\n\s*\n+  ->  \n\n : a newline and a whitespace run with two more
\* newlines, up to the last of them.
MatchExcessBreaks(s, p) ==
    LET w == RunEnd(s, p + 1, SpaceChars)
    IN  IF s[p] = "\n" /\ CountNewlines(s, p + 1, w) >= 2
        THEN [end |-> LastNewline(s, p + 1, w) + 1, repl |-> <<"\n", "\n">>]
        ELSE NoMatch

\* \s+([,;:])\s+  ->  \1 and a space
MatchPunctuation(s, p) ==
    LET a == RunEnd(s, p, SpaceChars)
        e == RunEnd(s, a + 1, SpaceChars)
    IN  IF a > p /\ At(s, a) \in {",", ";", ":"} /\ e > a + 1
        THEN [end |-> e, repl |-> <<s[a], " ">>]
        ELSE NoMatch

remove_noise_keep_context(text) ==
    LET t1 == ReSub(text, [p \in 1..Len(text) |-> MatchPageLine(text, p)])
        t2 == ReSub(t1, [p \in 1..Len(t1) |-> MatchPageNumber(t1, p)])
        t3 == ReSub(t2, [p \in 1..Len(t2) |-> MatchExcessBreaks(t2, p)])
        t4 == ReSub(t3, [p \in 1..Len(t3) |-> MatchPunctuation(t3, p)])
    IN  Strip(t4)

(***************************************************************************)
(* _clean_text_for_numerical_extraction: the four passes in order.         *)
(***************************************************************************)
clean_text_for_numerical_extraction(raw_text) ==
    remove_noise_keep_context(
        clean_preserve_numerical_symbols(
            normalize_whitespace(
                fix_numerical_line_breaks(raw_text))))

(***************************************************************************)
(* Bounds of the model.                                                    *)
(***************************************************************************)
MaxRequests == 3
MaxCalls == 2
MaxSnapshots == 1
MaxEdits == 1

VARIABLES
    pc,                     \* "idle", "loop" (inside process_multiple_pdfs) or "raised"
    pdf_configs,            \* the argument of the current or last batch call
    i,                      \* the loop variable of line 88
    processed_documents,    \* the local list of line 86
    result,                 \* what the last batch call returned
    processing_stats,       \* self.processing_stats; source_mapping holds a reference
    dicts,                  \* the dict objects that references point to
    clock,                  \* datetime.now()
    snapshots,              \* the dicts get_processing_statistics handed to the caller
    calls,                  \* number of batch calls started
    handled,                \* history: request index and whether it succeeded, per turn of the loop
    totals,                 \* history: documents returned, requests failed, characters returned
    method,                 \* the cleaning method called on raw_text
    step,                   \* number of passes the method has run
    raw_text,               \* the argument of the cleaning method
    text                    \* its local variable text

batchVars == <<pc, pdf_configs, i, processed_documents, result, processing_stats,
               dicts, clock, snapshots, calls, handled, totals>>
textVars == <<method, step, raw_text, text>>
vars == <<batchVars, textVars>>

(***************************************************************************)
(* The batch processor.                                                    *)
(***************************************************************************)
Requests ==
    {[path |-> "paper1.pdf", source_id |-> "SRC_001", source_label |-> "Source One"],
     [path |-> "paper2.pdf", source_id |-> "SRC_002", source_label |-> "Source Two"]}

Batches == UNION {[1..n -> Requests] : n \in 0..MaxRequests}

\* What _extract_text_from_pdf can do: raise FileNotFoundError (line 134),
\* raise the wrapped reader error (line 154), or return the stripped text of
\* the file, given here for the two paths.  The handler of line 118 treats the
\* two errors alike; they differ in the logged message only.
Failures == {"FileNotFoundError", "Exception"}

PageText(path) ==
    IF path = "paper1.pdf"
    THEN <<"5", "\n", "%">>
    ELSE <<"7", "#">>

\* The dict created in __init__ at line 62.
MappingRef == "source_mapping"

Put(d, key, value) ==
    [k \in DOMAIN d \cup {key} |-> IF k = key THEN value ELSE d[k]]

SourceDocument(config, raw, cleaned, now) ==
    [source_id |-> config.source_id,
     source_label |-> config.source_label,
     file_path |-> config.path,
     raw_text |-> raw,
     cleaned_text |-> cleaned,
     processing_timestamp |-> now]

InitBatch ==
    /\ pc = "idle"
    /\ pdf_configs = <<>>
    /\ i = 0
    /\ processed_documents = <<>>
    /\ result = <<>>
    /\ processing_stats =
           [total_documents |-> 0,
            successful_extractions |-> 0,
            failed_extractions |-> 0,
            total_text_length |-> 0,
            source_mapping |-> MappingRef]
    /\ dicts = [r \in {MappingRef} |-> <<>>]
    /\ clock = 0
    /\ snapshots = <<>>
    /\ calls = 0
    /\ handled = <<>>
    /\ totals = [returned |-> 0, failed |-> 0, chars |-> 0]

\* process_multiple_pdfs is entered: lines 84-88.
StartBatch(configs) ==
    /\ pc = "idle"
    /\ calls < MaxCalls
    /\ pc' = "loop"
    /\ pdf_configs' = configs
    /\ i' = 1
    /\ processed_documents' = <<>>
    /\ handled' = <<>>
    /\ calls' = calls + 1
    /\ UNCHANGED <<result, processing_stats, dicts, clock, snapshots, totals>>

\* One turn of the loop in which the try block runs to its end: lines 93-116.
ExtractionSucceeds ==
    /\ pc = "loop"
    /\ i <= Len(pdf_configs)
    /\ LET config == pdf_configs[i]
           raw == PageText(config.path)
           cleaned_text == clean_text_for_numerical_extraction(raw)
       IN  /\ processed_documents' =
                  Append(processed_documents,
                         SourceDocument(config, raw, cleaned_text, clock + 1))
           /\ processing_stats' =
                  [processing_stats EXCEPT
                     !.successful_extractions = @ + 1,
                     !.total_text_length = @ + Len(cleaned_text)]
           /\ dicts' = [dicts EXCEPT ![processing_stats.source_mapping] =
                           Put(@, config.source_id, config.source_label)]
    /\ clock' = clock + 1
    /\ handled' = Append(handled, [request |-> i, ok |-> TRUE])
    /\ i' = i + 1
    /\ UNCHANGED <<pc, pdf_configs, result, snapshots, calls, totals>>

\* ExtractionFails with the handler of line 118 left out: the error leaves
\* process_multiple_pdfs.
ExtractionFailsUncaught(error) ==
    /\ pc = "loop"
    /\ i <= Len(pdf_configs)
    /\ pc' = "raised"
    /\ handled' = Append(handled, [request |-> i, ok |-> FALSE])
    /\ UNCHANGED <<pdf_configs, i, processed_documents, result, processing_stats,
                   dicts, clock, snapshots, calls, totals>>

\* One turn of the loop in which the extractor raises: lines 118-121.
ExtractionFails(error) ==
    /\ pc = "loop"
    /\ i <= Len(pdf_configs)
    /\ processing_stats' = [processing_stats EXCEPT !.failed_extractions = @ + 1]
    /\ handled' = Append(handled, [request |-> i, ok |-> FALSE])
    /\ i' = i + 1
    /\ UNCHANGED <<pc, pdf_configs, processed_documents, result, dicts, clock,
                   snapshots, calls, totals>>

RECURSIVE SumLengths(_)
SumLengths(docs) ==
    IF docs = <<>> THEN 0
    ELSE Len(docs[1].cleaned_text) + SumLengths(Tail(docs))

\* FinishBatch with line 123 adding to total_documents as the other counters do.
FinishBatchAccumulates ==
    /\ pc = "loop"
    /\ i > Len(pdf_configs)
    /\ processing_stats' =
           [processing_stats EXCEPT !.total_documents = @ + Len(pdf_configs)]
    /\ result' = processed_documents
    /\ pc' = "idle"
    /\ totals' =
           [returned |-> totals.returned + Len(processed_documents),
            failed |-> totals.failed
                       + Cardinality({k \in 1..Len(handled) : ~handled[k].ok}),
            chars |-> totals.chars + SumLengths(processed_documents)]
    /\ UNCHANGED <<pdf_configs, i, processed_documents, dicts, clock, snapshots,
                   calls, handled>>

\* The loop is over: lines 123-128.
FinishBatch ==
    /\ pc = "loop"
    /\ i > Len(pdf_configs)
    /\ processing_stats' = [processing_stats EXCEPT !.total_documents = Len(pdf_configs)]
    /\ result' = processed_documents
    /\ pc' = "idle"
    /\ totals' =
           [returned |-> totals.returned + Len(processed_documents),
            failed |-> totals.failed
                       + Cardinality({k \in 1..Len(handled) : ~handled[k].ok}),
            chars |-> totals.chars + SumLengths(processed_documents)]
    /\ UNCHANGED <<pdf_configs, i, processed_documents, dicts, clock, snapshots,
                   calls, handled>>

\* get_processing_statistics: dict.copy() makes a new dict with the same values.
GetProcessingStatistics ==
    /\ pc = "idle"
    /\ Len(snapshots) < MaxSnapshots
    /\ snapshots' = Append(snapshots, [stats |-> processing_stats, edits |-> 0])
    /\ UNCHANGED <<pc, pdf_configs, i, processed_documents, result, processing_stats,
                   dicts, clock, calls, handled, totals>>

CounterFields ==
    {"total_documents", "successful_extractions", "failed_extractions", "total_text_length"}

\* The caller runs  snapshot[field] += 1  on a snapshot it holds.
CallerEditsCounter(k, field) ==
    /\ pc = "idle"
    /\ snapshots[k].edits < MaxEdits
    /\ snapshots' = [snapshots EXCEPT ![k].stats[field] = @ + 1, ![k].edits = @ + 1]
    /\ UNCHANGED <<pc, pdf_configs, i, processed_documents, result, processing_stats,
                   dicts, clock, calls, handled, totals>>

\* The caller runs  snapshot['source_mapping'][source_id] = label.
CallerEditsMapping(k, source_id, label) ==
    /\ pc = "idle"
    /\ snapshots[k].edits < MaxEdits
    /\ dicts' = [dicts EXCEPT ![snapshots[k].stats.source_mapping] = Put(@, source_id, label)]
    /\ snapshots' = [snapshots EXCEPT ![k].edits = @ + 1]
    /\ UNCHANGED <<pc, pdf_configs, i, processed_documents, result, processing_stats,
                   clock, calls, handled, totals>>

Init ==
    /\ InitBatch
    /\ method = "none"
    /\ step = 0
    /\ raw_text = <<>>
    /\ text = <<>>

\* The batch processor alone.
Next ==
    \/ \E configs \in Batches : StartBatch(configs) /\ UNCHANGED textVars
    \/ ExtractionSucceeds /\ UNCHANGED textVars
    \/ \E error \in Failures : ExtractionFails(error) /\ UNCHANGED textVars
    \/ FinishBatch /\ UNCHANGED textVars

Spec == Init /\ [][Next]_vars

\* The batch processor and a caller that takes and edits snapshots between calls.
NextCaller ==
    \/ \E configs \in Batches : StartBatch(configs) /\ UNCHANGED textVars
    \/ ExtractionSucceeds /\ UNCHANGED textVars
    \/ \E error \in Failures : ExtractionFails(error) /\ UNCHANGED textVars
    \/ FinishBatch /\ UNCHANGED textVars
    \/ GetProcessingStatistics /\ UNCHANGED textVars
    \/ \E k \in 1..Len(snapshots), field \in CounterFields :
          CallerEditsCounter(k, field) /\ UNCHANGED textVars
    \/ \E k \in 1..Len(snapshots) :
          CallerEditsMapping(k, "SRC_X", "Edited") /\ UNCHANGED textVars

SpecCaller == Init /\ [][NextCaller]_vars

(***************************************************************************)
(* The cleaning methods, called on a text.  raw_text is the argument,      *)
(* method the method called: the pipeline of lines 158-180, which runs the *)
(* four passes in order, or one pass alone.                                *)
(***************************************************************************)
MaxLines == 4
MaxLen == 2

Clean == "_clean_text_for_numerical_extraction"
Fix == "_fix_numerical_line_breaks"
Normalize == "_normalize_whitespace"
Filter == "_clean_preserve_numerical_symbols"
Noise == "_remove_noise_keep_context"

Methods == {Clean, Fix, Normalize, Filter, Noise}

\* The place of each pass in the pipeline: lines 167, 170, 173, 176.
Position(pass) ==
    CASE pass = Fix -> 0 [] pass = Normalize -> 1 [] pass = Filter -> 2 [] pass = Noise -> 3

CanRun(pass) ==
    IF method = Clean THEN step = Position(pass) ELSE method = pass /\ step = 0

Returned(m) == method = m /\ step = (IF m = Clean THEN 4 ELSE 1)

Numbers ==
    {<<"9", "7", ".", "2">>, <<"1", ".", "5">>, <<"9", "5", ".", "2">>, <<"9", "0">>, <<"0", ".", "5">>, <<"5">>, <<"9", "5">>}
Pads == {<<>>, <<" ">>}
PageLines == {<<"P", "a", "g", "e", " ", "3">>, <<"p", "a", "g", "e", " ", "1", "2">>}

\* A number, a line break, a percent sign, and a page line of its own.
PercentTexts ==
    {pre \o n \o pad \o <<"\n", "%">> \o tail \o <<"\n">> \o page \o <<"\n">> :
        pre \in {<<>>, <<"Y", "i", "e", "l", "d", " ", "w", "a", "s", " ">>},
        n \in {<<"9", "7", ".", "2">>, <<"5">>},
        pad \in Pads,
        tail \in {<<" ", "u", "n", "d", "e", "r", " ", "s", "t", "a", "n", "d", "a", "r", "d", " ", "c", "o", "n", "d", "i", "t", "i", "o", "n", "s", ".">>, <<" ", "u", "p">>},
        page \in PageLines}

\* A mantissa and its exponent on the next line.
ScientificTexts ==
    {<<"R", "a", "t", "e", ":", " ">> \o n \o <<" ", sign, " ", "1", "0">> \o pad \o <<"\n">> \o exp \o post :
        n \in {<<"1", ".", "5">>, <<"5">>},
        sign \in {Times, "x"},
        pad \in Pads,
        exp \in {<<"-", "6">>, <<"+", "3">>, <<"6">>},
        post \in {<<>>, <<" ", "p", "e", "r", " ", "s", "e", "c", "o", "n", "d">>}}

\* A number, a sign on a line of its own, a number.
ThreeLineTexts ==
    {pre \o n1 \o pad \o <<"\n", sign, "\n">> \o pad \o n2 \o post :
        pre \in {<<"E", "r", "r", "o", "r", ":", " ">>, <<"R", "a", "n", "g", "e", ":", " ">>},
        n1 \in {<<"9", "5", ".", "2">>, <<"9", "0">>},
        sign \in {"-", EnDash, PlusMinus},
        pad \in Pads,
        n2 \in {<<"0", ".", "5">>, <<"9", "5">>},
        post \in {<<" ", "m", "m", "H", "g">>, <<" ", "u", "n", "i", "t", "s">>}}

Lines == {<<"a">>, <<"b", ".">>, <<"4", "2">>, <<"4", "2", ".", "5">>, <<>>}

\* '\n'.join(lines)
RECURSIVE JoinLines(_)
JoinLines(lines) ==
    IF Len(lines) = 1 THEN lines[1]
    ELSE lines[1] \o <<"\n">> \o JoinLines(Tail(lines))

LineTexts == {JoinLines(ls) : ls \in UNION {[1..n -> Lines] : n \in 1..MaxLines}}

SymbolAlphabet ==
    {"a", "7", " ", ".", "^", "#", Times, Degree, PlusMinus, Mu, SquareRoot, NotSign}

ShortTexts == UNION {[1..n -> SymbolAlphabet] : n \in 0..MaxLen}

Texts == PercentTexts \cup ScientificTexts \cup ThreeLineTexts \cup LineTexts \cup ShortTexts

InitText ==
    /\ InitBatch
    /\ raw_text \in Texts
    /\ method \in Methods
    /\ text = raw_text
    /\ step = 0

\* line 167, or _fix_numerical_line_breaks called alone
FixLineBreaks ==
    /\ CanRun(Fix)
    /\ text' = fix_numerical_line_breaks(text)
    /\ step' = step + 1
    /\ UNCHANGED <<method, raw_text>>

\* line 170, or _normalize_whitespace called alone
NormalizeWhitespace ==
    /\ CanRun(Normalize)
    /\ text' = normalize_whitespace(text)
    /\ step' = step + 1
    /\ UNCHANGED <<method, raw_text>>

\* line 173, or _clean_preserve_numerical_symbols called alone
CleanSymbols ==
    /\ CanRun(Filter)
    /\ text' = clean_preserve_numerical_symbols(text)
    /\ step' = step + 1
    /\ UNCHANGED <<method, raw_text>>

\* line 176, or _remove_noise_keep_context called alone
RemoveNoise ==
    /\ CanRun(Noise)
    /\ text' = remove_noise_keep_context(text)
    /\ step' = step + 1
    /\ UNCHANGED <<method, raw_text>>

NextText ==
    \/ FixLineBreaks /\ UNCHANGED batchVars
    \/ NormalizeWhitespace /\ UNCHANGED batchVars
    \/ CleanSymbols /\ UNCHANGED batchVars
    \/ RemoveNoise /\ UNCHANGED batchVars

SpecText == InitText /\ [][NextText]_vars

(***************************************************************************)
(* Properties of the batch processor.                                      *)
(***************************************************************************)
\* A document without its timestamp.
Attributed(doc) ==
    [source_id |-> doc.source_id,
     source_label |-> doc.source_label,
     file_path |-> doc.file_path,
     raw_text |-> doc.raw_text,
     cleaned_text |-> doc.cleaned_text]

\* The documents of the requests k, k+1, ... whose extraction succeeded.
RECURSIVE DocumentsOfSuccesses(_)
DocumentsOfSuccesses(k) ==
    IF k > Len(handled) THEN <<>>
    ELSE IF ~handled[k].ok THEN DocumentsOfSuccesses(k + 1)
    ELSE LET config == pdf_configs[handled[k].request]
             raw == PageText(config.path)
         IN  <<[source_id |-> config.source_id,
                source_label |-> config.source_label,
                file_path |-> config.path,
                raw_text |-> raw,
                cleaned_text |-> clean_text_for_numerical_extraction(raw)]>>
             \o DocumentsOfSuccesses(k + 1)

\* C1: whatever extractions fail, no error leaves the batch call, the
\* requests are handled once each in submission order, and the call returns
\* the documents of exactly the requests that succeeded, in that order.
BatchSurvivesFailures ==
    /\ pc # "raised"
    /\ pc = "loop" => Len(handled) = i - 1
    /\ \A k \in 1..Len(handled) : handled[k].request = k
    /\ (pc = "idle" /\ calls > 0) =>
          /\ Len(handled) = Len(pdf_configs)
          /\ [k \in 1..Len(result) |-> Attributed(result[k])] = DocumentsOfSuccesses(1)

\* Three requests, the second one failed: the documents of requests 1 and 3.
SecondOfThreeFailed ==
    /\ pc = "idle"
    /\ Len(pdf_configs) = 3
    /\ handled[1].ok
    /\ ~handled[2].ok
    /\ handled[3].ok
    /\ Len(result) = 2
    /\ result[1].file_path = pdf_configs[1].path
    /\ result[2].file_path = pdf_configs[3].path

\* C2: between batch calls total_documents is the number of requests of the
\* last call alone, and the other three counters are sums over all calls:
\* documents returned, requests failed, characters of cleaned text returned.
StatisticsAccumulate ==
    pc = "idle" =>
        /\ processing_stats.total_documents = (IF calls = 0 THEN 0 ELSE Len(pdf_configs))
        /\ processing_stats.successful_extractions = totals.returned
        /\ processing_stats.failed_extractions = totals.failed
        /\ processing_stats.total_text_length = totals.chars

\* After a second call with one request, the counters hold more than that call.
SecondCallOfOne ==
    /\ pc = "idle"
    /\ calls = 2
    /\ processing_stats.total_documents = 1
    /\ processing_stats.successful_extractions = 3
    /\ processing_stats.failed_extractions = 1
    /\ processing_stats.total_text_length > Len(result[1].cleaned_text)

\* What a reader of a statistics dict sees: the counters and the mapping.
Seen(stats) == [stats EXCEPT !.source_mapping = dicts[stats.source_mapping]]

SnapshotsSeen == [k \in 1..Len(snapshots) |-> Seen(snapshots[k].stats)]

\* C3: a snapshot is a copy: taking or editing one between calls changes
\* nothing the processor's statistics show, and no step of a batch call
\* changes what a snapshot taken earlier shows.
SnapshotIsACopy ==
    [][/\ (pc = "idle" /\ pc' = "idle") => Seen(processing_stats)' = Seen(processing_stats)
       /\ pc = "loop" => SnapshotsSeen' = SnapshotsSeen]_vars

(***************************************************************************)
(* Properties of the cleaning methods.                                     *)
(***************************************************************************)
Contains(t, sub) ==
    \E p \in 1..(Len(t) - Len(sub) + 1) : SubSeq(t, p, p + Len(sub) - 1) = sub

\* C4: where the raw text has a number, a line break and a percent sign, and
\* a page line of its own between two newlines, the pipeline's text holds the
\* number and the sign joined and does not hold the page line.
PercentJoinedAndPageLineRemoved ==
    Returned(Clean) =>
        \A n \in Numbers, pad \in Pads, page \in PageLines :
            (/\ Contains(raw_text, n \o pad \o <<"\n", "%">>)
             /\ Contains(raw_text, <<"\n">> \o page \o <<"\n">>))
            => (/\ Contains(text, n \o <<"%">>)
                /\ ~Contains(text, page))

\* C5: where the raw text has a mantissa '<number> {Times} 10', a line break
\* and the exponent, the pipeline's text holds '<number> {Times} 10^<exponent>'.
ScientificNotationJoined ==
    Returned(Clean) =>
        \A n \in Numbers, pad \in Pads, exp \in {<<"-", "6">>, <<"+", "3">>, <<"6">>} :
            Contains(raw_text, n \o <<" ", Times, " ", "1", "0">> \o pad \o <<"\n">> \o exp)
            => Contains(text, n \o <<" ", Times, " ", "1", "0", "^">> \o exp)

\* C6: where the raw text has a number, a line holding only {PlusMinus} and a
\* second number, the pipeline's text holds '<number>{PlusMinus}<number>'.
ErrorRangeJoined ==
    Returned(Clean) =>
        \A n1 \in Numbers, n2 \in Numbers, pad \in Pads :
            Contains(raw_text, n1 \o pad \o <<"\n", PlusMinus, "\n">> \o pad \o n2)
            => Contains(text, n1 \o <<PlusMinus>> \o n2)

\* C7: where the raw text has a number, a line holding only a hyphen or an en
\* dash and a second number, the pipeline's text holds '<number>-<number>'.
RangeJoined ==
    Returned(Clean) =>
        \A n1 \in Numbers, n2 \in Numbers, pad \in Pads, dash \in {"-", EnDash} :
            Contains(raw_text, n1 \o pad \o <<"\n", dash, "\n">> \o pad \o n2)
            => Contains(text, n1 \o <<"-">> \o n2)

\* The part of C7 that holds: with the ASCII hyphen on the middle line the
\* pipeline's text holds '<number>-<number>'.
RangeJoinedForHyphen ==
    Returned(Clean) =>
        \A n1 \in Numbers, n2 \in Numbers, pad \in Pads :
            Contains(raw_text, n1 \o pad \o <<"\n", "-", "\n">> \o pad \o n2)
            => Contains(text, n1 \o <<"-">> \o n2)

DigitsOnly(line) ==
    Strip(line) # <<>> /\ \A k \in 1..Len(Strip(line)) : Strip(line)[k] \in Digit

Decimal(line) ==
    LET l == Strip(line)
        d == RunEnd(l, 1, Digit)
    IN  d > 1 /\ At(l, d) = "." /\ RunEnd(l, d + 1, Digit) = Len(l) + 1 /\ Len(l) > d

\* C8: the noise remover leaves no line of digits between two newlines, and
\* every decimal number that had a line of its own between two newlines
\* still has it.
PageNumberLinesRemoved ==
    Returned(Noise) =>
        LET before == Split(raw_text, 1)
            after == Split(text, 1)
        IN  /\ \A k \in 2..(Len(after) - 1) : ~DigitsOnly(after[k])
            /\ \A k \in 2..(Len(before) - 1) :
                  Decimal(before[k]) => \E j \in 1..Len(after) : Strip(after[j]) = Strip(before[k])

\* The first line after line k of lines that is not blank, or 0.
RECURSIVE NextTextLine(_, _)
NextTextLine(lines, k) ==
    IF k >= Len(lines) THEN 0
    ELSE IF Strip(lines[k + 1]) # <<>> THEN k + 1 ELSE NextTextLine(lines, k + 1)

\* C9: the normalizer keeps the line break after a line that ends a sentence
\* and is followed by a line with text, keeps one blank line where the input
\* had blank lines between two lines with text, and puts a space for the
\* break after a line that does not end a sentence.
LineBreaksKept ==
    Returned(Normalize) =>
        LET lines == Split(raw_text, 1)
        IN  \A k \in 1..(Len(lines) - 1) :
                LET a == Strip(lines[k])
                    j == NextTextLine(lines, k)
                    b == Strip(lines[j])
                IN  (a # <<>> /\ j # 0) =>
                        Contains(text,
                            IF j > k + 1 THEN <<a[Len(a)], "\n", "\n", b[1]>>
                            ELSE IF a[Len(a)] \in SentenceEnd THEN <<a[Len(a)], "\n", b[1]>>
                            ELSE <<a[Len(a)], " ", b[1]>>)

\* The characters the filter is to keep: word characters, whitespace and
\* . , - + {Times} {Degree} % {PlusMinus} = : / ( ) [ ] {Mu} m k M G T g L V A W
CuratedChars ==
    WordChars \cup SpaceChars \cup
    {".", ",", "-", "+", Times, Degree, "%", PlusMinus, "=", ":", "/", "(", ")", "[", "]",
     Mu, "m", "k", "M", "G", "T", "g", "L", "V", "A", "W"}

\* C10: the filter keeps every curated character and puts one space for
\* every other character, so the length stays and a second run changes
\* nothing.
FilterKeepsCuratedChars ==
    Returned(Filter) =>
        /\ Len(text) = Len(raw_text)
        /\ \A k \in 1..Len(raw_text) :
              text[k] = (IF raw_text[k] \in CuratedChars THEN raw_text[k] ELSE " ")
        /\ clean_preserve_numerical_symbols(text) = text

====
